---- MODULE Spec2Model ----
(***************************************************************************)
(* Model of GoogleDriveService (src/gdrive_service.py): upload_folder      *)
(* mirrors a local directory tree under a remote parent folder, and        *)
(* path_exists probes a slash separated path against the remote store.     *)
(*                                                                         *)
(* A Python string is a sequence of tokens: a token is either a name (a    *)
(* run of characters without a slash, e.g. "r") or the separator "/".      *)
(* String concatenation is \o, so path+"/"+subdir is path \o <<"/">> \o    *)
(* <<subdir>>, and os.path.join and str.split are modelled by what they do *)
(* on such sequences.                                                      *)
(*                                                                         *)
(* The remote store (Google Drive) is a sequence of entities in creation   *)
(* order. A listing returns the matching entities in that order, and every *)
(* remote call may raise HttpError. A call whose parent id is None (an     *)
(* unbound dirs_dict entry) either raises or is served like a call with    *)
(* any other parent id: entities created under None are listed under None. *)
(***************************************************************************)
EXTENDS Integers, Sequences, FiniteSets, TLC

VARIABLES
    tree,       \* the local tree: set of [rel, kind], rel the names below the root
    dir,        \* the dir argument (the string naming the local root)
    store,      \* the remote store: sequence of [id, name, parent, kind]
    pc,         \* "idle" | "run": whether an upload_folder invocation is in progress
    status,     \* "none" | "running" | "done" | "failed": the last upload_folder
    dirs_dict,  \* upload_folder's dirs_dict: function from strings to ids
    stack,      \* directories os.walk has still to yield: sequence of [path, rel]
    path,       \* the path os.walk yielded last
    rel,        \* the names from the root to that directory
    subdirs,    \* subdirs of path still to process in the for loop
    files,      \* files of path still to process in the for loop
    calls,      \* remote calls of the current invocation, in order
    store0,     \* the remote store when the current upload_folder began
    hist,       \* one summary per finished upload_folder invocation
    pe          \* the last path_exists invocation: [search, result, calls, dict]

vars == <<tree, dir, store, pc, status, dirs_dict, stack, path, rel, subdirs,
          files, calls, store0, hist, pe>>

----------------------------------------------------------------------------
(* Bounds *)

MaxNodes == 2       \* directories plus files in the local tree
MaxInit == 1        \* entities in the initial remote store of an upload
MaxRuns == 2        \* upload_folder invocations in one behaviour
MaxProbeInit == 2   \* entities in the remote store path_exists is probed against
MaxSegs == 3        \* segments of a path_exists search path

DirNames == {"r", "s"}
FileNames == {"f"}
StoreNames == {"s", "f"}
SegNames == {"w", "r", "s", "f"}
NameSeq == <<"f", "r", "s">>   \* the order a directory lists its entries in

\* the dir arguments: "r", "r/" and "w/r"
RootStrings == { <<"r">>, <<"r", "/">>, <<"w", "/", "r">> }

----------------------------------------------------------------------------
(* Identifiers *)

PId == 0            \* id_parent, the caller's destination folder
NoneId == 0 - 1     \* Python's None: the value of dict.get on a missing key

----------------------------------------------------------------------------
(* Strings *)

Last(s) == s[Len(s)]

\* os.path.join(p, name) for a relative name
Join(p, name) ==
    IF p = <<>> THEN <<name>>
    ELSE IF Last(p) = "/" THEN p \o <<name>>
    ELSE p \o <<"/", name>>

\* path + "/" + name, the key upload_folder stores
SlashCat(p, name) == p \o <<"/">> \o name

\* str.split('/'): the segments between separators, empty ones included
RECURSIVE SplitFrom(_, _, _)
SplitFrom(s, i, cur) ==
    IF i > Len(s) THEN <<cur>>
    ELSE IF s[i] = "/" THEN <<cur>> \o SplitFrom(s, i + 1, <<>>)
    ELSE SplitFrom(s, i + 1, Append(cur, s[i]))

Split(s) == SplitFrom(s, 1, <<>>)

\* dict.get(key): the value, or None
Get(d, key) == IF key \in DOMAIN d THEN d[key] ELSE NoneId

\* an assignment that starts the dict afresh: d = {key: id}
PutOnly(d, key, id) == [k \in {key} |-> id]

\* d[key] = id
Put(d, key, id) == [k \in (DOMAIN d) \cup {key} |-> IF k = key THEN id ELSE d[k]]

----------------------------------------------------------------------------
(* The local tree *)

DirRels(t) == {<<>>} \cup { n.rel : n \in { m \in t : m.kind = "dir" } }

TreeExt(t) ==
    { [rel |-> Append(d, nm), kind |-> "dir"] :
        d \in DirRels(t), nm \in DirNames }
    \cup
    { [rel |-> Append(d, nm), kind |-> "file"] : d \in DirRels(t), nm \in FileNames }

RECURSIVE TreesUpTo(_)
TreesUpTo(n) ==
    IF n = 0 THEN {{}}
    ELSE LET prev == TreesUpTo(n - 1)
         IN  prev \cup UNION { { t \cup {nd} : nd \in TreeExt(t) \ t } : t \in prev }

LocalTrees == TreesUpTo(MaxNodes)

\* the entries of kind k directly inside the directory at d, in listing order
Children(t, d, k) ==
    SelectSeq(NameSeq, LAMBDA nm : [rel |-> Append(d, nm), kind |-> k] \in t)

----------------------------------------------------------------------------
(* The remote store *)

FolderIds(st) == { st[i].id : i \in { j \in 1..Len(st) : st[j].kind = "folder" } }

StoreExt(st) ==
    { [id |-> Len(st) + 1, name |-> <<nm>>, parent |-> p, kind |-> k] :
        nm \in StoreNames, p \in {PId} \cup FolderIds(st), k \in {"folder", "file"} }

RECURSIVE StoresUpTo(_)
StoresUpTo(n) ==
    IF n = 0 THEN {<<>>}
    ELSE LET prev == StoresUpTo(n - 1)
         IN  prev \cup UNION { { Append(st, e) : e \in StoreExt(st) } : st \in prev }

\* stores whose entities all carry one name under id_parent: the listings
\* with several matches
DuplicateStores ==
    { st \in StoresUpTo(MaxInit + 1) :
        /\ Len(st) = MaxInit + 1
        /\ \A i \in 1..Len(st) : st[i].name = st[1].name /\ st[i].parent = PId }

\* a store whose entities have the other type than the local entries of
\* their names: a file named like a directory, a folder named like a file
ClashStores ==
    { << [id |-> 1, name |-> <<"s">>, parent |-> PId, kind |-> "file"],
         [id |-> 2, name |-> <<"f">>, parent |-> PId, kind |-> "folder"] >> }

InitialStores == StoresUpTo(MaxInit) \cup DuplicateStores \cup ClashStores

ProbeStores == StoresUpTo(MaxProbeInit)

\* the loop over response.get("files"): the id of the last entity listed, or None
LastId(listing) == IF listing = <<>> THEN NoneId ELSE listing[Len(listing)].id

\* a search_folder whose type filter is inverted
search_folder_nonfolder(st, name, id_parent) ==
    LastId(SelectSeq(st, LAMBDA e :
        e.kind # "folder" /\ e.parent = id_parent /\ e.name = name))

\* search_folder: folder-typed entities named name under id_parent
search_folder(st, name, id_parent) ==
    LastId(SelectSeq(st, LAMBDA e :
        e.kind = "folder" /\ e.parent = id_parent /\ e.name = name))

\* a search_file that kept the folder filter of search_folder
search_file_typed(st, name, id_parent) ==
    LastId(SelectSeq(st, LAMBDA e :
        e.kind = "folder" /\ e.parent = id_parent /\ e.name = name))

\* a search_file that leaves the folders out of its listing
search_file_nonfolder(st, name, id_parent) ==
    LastId(SelectSeq(st, LAMBDA e :
        e.kind # "folder" /\ e.parent = id_parent /\ e.name = name))

\* search_file: entities of any type named name under id_parent
search_file(st, name, id_parent) ==
    LastId(SelectSeq(st, LAMBDA e : e.parent = id_parent /\ e.name = name))

\* a create_folder that replaces the entities of that name under id_parent
create_folder_replacing(st, name, id_parent) ==
    Append(SelectSeq(st, LAMBDA e : ~(e.parent = id_parent /\ e.name = name)),
           [id |-> Len(st) + 1, name |-> name, parent |-> id_parent,
            kind |-> "folder"])

\* create_folder: the store with a new folder, whose id is returned
create_folder(st, name, id_parent) ==
    Append(st, [id |-> Len(st) + 1, name |-> name, parent |-> id_parent,
                kind |-> "folder"])

\* upload_file: the store with a new file, whose id is returned
upload_file(st, name, id_parent) ==
    Append(st, [id |-> Len(st) + 1, name |-> name, parent |-> id_parent,
                kind |-> "file"])

NewId(st) == Len(st) + 1

\* the record of one remote call: at is the local path the caller was at
Call(op, at, name, parent, res, err) ==
    [op |-> op, at |-> at, name |-> name, parent |-> parent, res |-> res, err |-> err]

NoPe == [search |-> <<>>, result |-> "none", calls |-> <<>>, dict |-> <<>>]

----------------------------------------------------------------------------
(* upload_folder *)

\* the state before any invocation, for the given inputs
Start(t, d, st) ==
    /\ tree = t
    /\ dir = d
    /\ store = st
    /\ pc = "idle"
    /\ status = "none"
    /\ dirs_dict = <<>>
    /\ stack = <<>>
    /\ path = <<>>
    /\ rel = <<>>
    /\ subdirs = <<>>
    /\ files = <<>>
    /\ calls = <<>>
    /\ store0 = <<>>
    /\ hist = <<>>
    /\ pe = NoPe

Init == \E t \in LocalTrees, d \in RootStrings, st \in InitialStores : Start(t, d, st)

\* a seeding that mirrors the root directory itself under id_parent
SeedRunMirrored(st, d, id_parent) ==
    LET id == search_folder(st, d, id_parent)
        cSearch == Call("search_folder", d, d, id_parent, id, FALSE)
        cCreate == Call("create_folder", d, d, id_parent, NewId(st), FALSE)
    IN  IF id # NoneId
        THEN [dict |-> [k \in {d} |-> id], store |-> st, calls |-> <<cSearch>>]
        ELSE [dict |-> [k \in {d} |-> NewId(st)],
              store |-> create_folder(st, d, id_parent),
              calls |-> <<cSearch, cCreate>>]

\* dirs_dict = {dir: id_parent}: the dict is seeded without any remote call
SeedRun(st, d, id_parent) ==
    [dict |-> [k \in {d} |-> id_parent], store |-> st, calls |-> <<>>]

\* upload_folder is called: the dict is seeded and os.walk(dir) is set up
StartUpload ==
    /\ pc = "idle"
    /\ pe = NoPe
    /\ Len(hist) < MaxRuns
    /\ pc' = "run"
    /\ status' = "running"
    /\ dirs_dict' = SeedRun(store, dir, PId).dict
    /\ store' = SeedRun(store, dir, PId).store
    /\ calls' = SeedRun(store, dir, PId).calls
    /\ stack' = << [path |-> dir, rel |-> <<>>] >>
    /\ path' = <<>>
    /\ rel' = <<>>
    /\ subdirs' = <<>>
    /\ files' = <<>>
    /\ store0' = store
    /\ UNCHANGED <<tree, dir, hist, pe>>

\* an ending that reports the error of a remote call without raising it again
EndRunSwallowing(st, newStore, newCalls) ==
    IF st = "failed"
    THEN /\ pc' = pc
         /\ status' = status
         /\ hist' = hist
         /\ stack' = stack
         /\ subdirs' = IF subdirs = <<>> THEN subdirs ELSE Tail(subdirs)
         /\ files' = IF subdirs = <<>> THEN Tail(files) ELSE files
    ELSE /\ pc' = "idle"
         /\ status' = st
         /\ hist' = Append(hist, [status |-> st, before |-> store0,
                                  after |-> newStore, calls |-> newCalls])
         /\ stack' = <<>>
         /\ subdirs' = <<>>
         /\ files' = <<>>

\* the invocation ends, returning (st = "done") or raising (st = "failed")
EndRun(st, newStore, newCalls) ==
    /\ pc' = "idle"
    /\ status' = st
    /\ hist' = Append(hist, [status |-> st, before |-> store0, after |-> newStore,
                             calls |-> newCalls])
    /\ stack' = <<>>
    /\ subdirs' = <<>>
    /\ files' = <<>>

\* os.walk yields the next (path, subdirs, files), top-down
WalkNext ==
    /\ pc = "run"
    /\ subdirs = <<>>
    /\ files = <<>>
    /\ stack # <<>>
    /\ LET top == Head(stack)
           subs == Children(tree, top.rel, "dir")
       IN  /\ path' = top.path
           /\ rel' = top.rel
           /\ subdirs' = subs
           /\ files' = Children(tree, top.rel, "file")
           /\ stack' = [i \in 1..Len(subs) |->
                           [path |-> Join(top.path, subs[i]),
                            rel |-> Append(top.rel, subs[i])]] \o Tail(stack)
    /\ UNCHANGED <<tree, dir, store, pc, status, dirs_dict, calls, store0, hist, pe>>

\* the walk is exhausted: upload_folder returns
Finish ==
    /\ pc = "run"
    /\ subdirs = <<>>
    /\ files = <<>>
    /\ stack = <<>>
    /\ EndRun("done", store, calls)
    /\ UNCHANGED <<tree, dir, store, dirs_dict, path, rel, calls, store0, pe>>

\* if subdir not in dirs_dict
SubdirUnbound(d, subdir) == <<subdir>> \notin DOMAIN d

\* one iteration of "for subdir in subdirs"
SubdirStep ==
    /\ pc = "run"
    /\ subdirs # <<>>
    /\ LET subdir == Head(subdirs)
           new_id_parent == Get(dirs_dict, path)
           id == search_folder(store, <<subdir>>, new_id_parent)
           key == SlashCat(path, <<subdir>>)
           cSearch == Call("search_folder", path, <<subdir>>, new_id_parent, id, FALSE)
           cCreate == Call("create_folder", path, <<subdir>>, new_id_parent, NewId(store), FALSE)
       IN  IF ~SubdirUnbound(dirs_dict, subdir)
           THEN /\ subdirs' = Tail(subdirs)
                /\ UNCHANGED <<store, pc, status, dirs_dict, stack, files, calls, hist>>
           ELSE \/ \* search_folder raises
                   /\ calls' = Append(calls, [cSearch EXCEPT !.res = NoneId, !.err = TRUE])
                   /\ EndRun("failed", store, calls')
                   /\ UNCHANGED <<store, dirs_dict>>
                \/ \* the folder is found
                   /\ id # NoneId
                   /\ calls' = Append(calls, cSearch)
                   /\ dirs_dict' = Put(dirs_dict, key, id)
                   /\ subdirs' = Tail(subdirs)
                   /\ UNCHANGED <<store, pc, status, stack, files, hist>>
                \/ \* it is absent and create_folder raises
                   /\ id = NoneId
                   /\ calls' = calls \o <<cSearch, [cCreate EXCEPT !.res = NoneId, !.err = TRUE]>>
                   /\ EndRun("failed", store, calls')
                   /\ UNCHANGED <<store, dirs_dict>>
                \/ \* it is absent and is created
                   /\ id = NoneId
                   /\ store' = create_folder(store, <<subdir>>, new_id_parent)
                   /\ calls' = calls \o <<cSearch, cCreate>>
                   /\ dirs_dict' = Put(dirs_dict, key, NewId(store))
                   /\ subdirs' = Tail(subdirs)
                   /\ UNCHANGED <<pc, status, stack, files, hist>>
    /\ UNCHANGED <<tree, dir, path, rel, store0, pe>>

\* one iteration of "for file in files"
FileStep ==
    /\ pc = "run"
    /\ subdirs = <<>>
    /\ files # <<>>
    /\ LET file == Head(files)
           parent == Get(dirs_dict, path)
           id == search_file(store, <<file>>, parent)
           cSearch == Call("search_file", path, <<file>>, parent, id, FALSE)
           cUpload == Call("upload_file", path, <<file>>, parent, NewId(store), FALSE)
       IN  \/ \* search_file raises
              /\ calls' = Append(calls, [cSearch EXCEPT !.res = NoneId, !.err = TRUE])
              /\ EndRun("failed", store, calls')
              /\ UNCHANGED store
           \/ \* the file exists already
              /\ id # NoneId
              /\ calls' = Append(calls, cSearch)
              /\ files' = Tail(files)
              /\ UNCHANGED <<store, pc, status, stack, subdirs, hist>>
           \/ \* it is absent and upload_file raises
              /\ id = NoneId
              /\ calls' = calls \o <<cSearch, [cUpload EXCEPT !.res = NoneId, !.err = TRUE]>>
              /\ EndRun("failed", store, calls')
              /\ UNCHANGED store
           \/ \* it is absent and is uploaded
              /\ id = NoneId
              /\ store' = upload_file(store, <<file>>, parent)
              /\ calls' = calls \o <<cSearch, cUpload>>
              /\ files' = Tail(files)
              /\ UNCHANGED <<pc, status, stack, subdirs, hist>>
    /\ UNCHANGED <<tree, dir, dirs_dict, path, rel, store0, pe>>

\* upload_folder when no remote call raises, as one function of its inputs:
\* the loop "for subdir in subdirs" over r = [store, dict] at the local path p
RECURSIVE RunSubdirs(_, _, _)
RunSubdirs(r, p, subs) ==
    IF subs = <<>> THEN r
    ELSE
      LET subdir == Head(subs)
          new_id_parent == Get(r.dict, p)
          id == search_folder(r.store, <<subdir>>, new_id_parent)
          key == SlashCat(p, <<subdir>>)
      IN  IF ~SubdirUnbound(r.dict, subdir)
          THEN RunSubdirs(r, p, Tail(subs))
          ELSE IF id # NoneId
          THEN RunSubdirs([store |-> r.store, dict |-> Put(r.dict, key, id)],
                          p, Tail(subs))
          ELSE RunSubdirs([store |-> create_folder(r.store, <<subdir>>, new_id_parent),
                           dict |-> Put(r.dict, key, NewId(r.store))],
                          p, Tail(subs))

\* the loop "for file in files"
RECURSIVE RunFiles(_, _, _)
RunFiles(r, p, fs) ==
    IF fs = <<>> THEN r
    ELSE
      LET file == Head(fs)
          parent == Get(r.dict, p)
          id == search_file(r.store, <<file>>, parent)
      IN  IF id # NoneId
          THEN RunFiles(r, p, Tail(fs))
          ELSE RunFiles([store |-> upload_file(r.store, <<file>>, parent),
                         dict |-> r.dict],
                        p, Tail(fs))

\* the loop over os.walk(dir), top-down
RECURSIVE RunWalk(_, _, _)
RunWalk(t, r, stk) ==
    IF stk = <<>> THEN r.store
    ELSE
      LET top == Head(stk)
          subs == Children(t, top.rel, "dir")
          r1 == RunSubdirs(r, top.path, subs)
          r2 == RunFiles(r1, top.path, Children(t, top.rel, "file"))
      IN  RunWalk(t, r2,
                  [i \in 1..Len(subs) |->
                      [path |-> Join(top.path, subs[i]),
                       rel |-> Append(top.rel, subs[i])]] \o Tail(stk))

\* the remote store upload_folder(dir, id_parent) leaves when it returns
upload_folder(t, d, id_parent, st) ==
    RunWalk(t, [store |-> SeedRun(st, d, id_parent).store,
                dict |-> SeedRun(st, d, id_parent).dict],
            << [path |-> d, rel |-> <<>>] >>)

----------------------------------------------------------------------------
(* path_exists *)

\* a loop that goes on to the next segment when both probes found nothing
RECURSIVE PathLoopNoExit(_, _, _, _, _, _, _)
PathLoopNoExit(st, segs, i, d, last_path, log, failAt) ==
    IF i > Len(segs)
    THEN [result |-> "true", calls |-> log, dict |-> d, store |-> st]
    ELSE
      LET seg == segs[i]
          new_id_parent == Get(d, last_path)
          next_path == SlashCat(last_path, seg)
          idFolder == search_folder(st, seg, new_id_parent)
          idFile == search_file(st, seg, new_id_parent)
          cFolder == Call("search_folder", last_path, seg, new_id_parent, idFolder, FALSE)
          cFile == Call("search_file", last_path, seg, new_id_parent, idFile, FALSE)
          raised(c) == [c EXCEPT !.res = NoneId, !.err = TRUE]
      IN  IF seg \in DOMAIN d
          THEN PathLoopNoExit(st, segs, i + 1, d, next_path, log, failAt)
          ELSE IF failAt = Len(log) + 1
          THEN [result |-> "error", calls |-> Append(log, raised(cFolder)), dict |-> d,
                store |-> st]
          ELSE IF idFolder # NoneId
          THEN PathLoopNoExit(st, segs, i + 1, Put(d, next_path, idFolder), next_path,
                              Append(log, cFolder), failAt)
          ELSE IF failAt = Len(log) + 2
          THEN [result |-> "error", calls |-> log \o <<cFolder, raised(cFile)>>,
                dict |-> d, store |-> st]
          ELSE PathLoopNoExit(st, segs, i + 1, Put(d, next_path, idFile), next_path,
                              log \o <<cFolder, cFile>>, failAt)

\* the for loop of path_exists from segment i on; the failAt-th remote call
\* of the invocation raises (none when failAt = 0). The store is handed
\* through: search_folder and search_file only list
RECURSIVE PathLoop(_, _, _, _, _, _, _)
PathLoop(st, segs, i, d, last_path, log, failAt) ==
    IF i > Len(segs)
    THEN [result |-> "true", calls |-> log, dict |-> d, store |-> st]
    ELSE
      LET seg == segs[i]
          new_id_parent == Get(d, last_path)
          next_path == SlashCat(last_path, seg)
          idFolder == search_folder(st, seg, new_id_parent)
          idFile == search_file(st, seg, new_id_parent)
          cFolder == Call("search_folder", last_path, seg, new_id_parent, idFolder, FALSE)
          cFile == Call("search_file", last_path, seg, new_id_parent, idFile, FALSE)
          raised(c) == [c EXCEPT !.res = NoneId, !.err = TRUE]
      IN  IF seg \in DOMAIN d
          THEN PathLoop(st, segs, i + 1, d, next_path, log, failAt)
          ELSE IF failAt = Len(log) + 1
          THEN [result |-> "error", calls |-> Append(log, raised(cFolder)), dict |-> d,
                store |-> st]
          ELSE IF idFolder # NoneId
          THEN PathLoop(st, segs, i + 1, Put(d, next_path, idFolder), next_path,
                        Append(log, cFolder), failAt)
          ELSE IF failAt = Len(log) + 2
          THEN [result |-> "error", calls |-> log \o <<cFolder, raised(cFile)>>,
                dict |-> d, store |-> st]
          ELSE IF idFile = NoneId
          THEN [result |-> "false", calls |-> log \o <<cFolder, cFile>>, dict |-> d,
                store |-> st]
          ELSE PathLoop(st, segs, i + 1, Put(d, next_path, idFile), next_path,
                        log \o <<cFolder, cFile>>, failAt)

\* a path_exists that creates the folder it found missing
path_exists_creating(st, search, d, id_parent, failAt) ==
    LET segs == Split(search)
        r == PathLoop(st, segs, 2, SeedRun(st, d, id_parent).dict, segs[1], <<>>, failAt)
        c == r.calls[Len(r.calls)]
    IN  IF r.result = "false"
        THEN [r EXCEPT !.store = create_folder(st, c.name, c.parent),
                       !.calls = Append(r.calls,
                                        Call("create_folder", c.at, c.name, c.parent,
                                             NewId(st), FALSE))]
        ELSE r

path_exists(st, search, d, id_parent, failAt) ==
    LET segs == Split(search)
    IN  PathLoop(st, segs, 2, SeedRun(st, d, id_parent).dict, segs[1], <<>>, failAt)

RECURSIVE PathsOfLen(_)
PathsOfLen(n) ==
    IF n = 1 THEN { <<nm>> : nm \in SegNames }
    ELSE { p \o <<"/", nm>> : p \in PathsOfLen(n - 1), nm \in SegNames }

SearchPaths == UNION { PathsOfLen(n) : n \in 1..MaxSegs }

\* the local path of the entry at rel, as os.walk composes it
RECURSIVE LocalPath(_, _)
LocalPath(d, r) ==
    IF r = <<>> THEN d ELSE Join(LocalPath(d, SubSeq(r, 1, Len(r) - 1)), Last(r))

TreePaths == { LocalPath(dir, n.rel) : n \in tree } \cup {dir}

\* one whole path_exists invocation on one of the given search paths
PathExistsOn(paths) ==
    /\ pc = "idle"
    /\ pe = NoPe
    /\ \E search \in paths :
          \E failAt \in 0..Len(path_exists(store, search, dir, PId, 0).calls) :
            LET r == path_exists(store, search, dir, PId, failAt)
            IN  /\ pe' = [search |-> search, result |-> r.result, calls |-> r.calls,
                          dict |-> r.dict]
                /\ store' = r.store
    /\ UNCHANGED <<tree, dir, pc, status, dirs_dict, stack, path, rel,
                   subdirs, files, calls, store0, hist>>

\* the caller has taken the result of path_exists
Return ==
    /\ pe # NoPe
    /\ pe' = NoPe
    /\ UNCHANGED <<tree, dir, store, pc, status, dirs_dict, stack, path, rel,
                   subdirs, files, calls, store0, hist>>

\* path_exists on the local path of an entry of the tree
PathExists == PathExistsOn(TreePaths)

\* path_exists on any search path
PathExistsAny == PathExistsOn(SearchPaths)

----------------------------------------------------------------------------
(* Specifications *)

Next ==
    StartUpload \/ WalkNext \/ SubdirStep \/ FileStep \/ Finish

Spec == Init /\ [][Next]_vars

\* upload_folder and path_exists invocations in any order
InitMix == \E t \in LocalTrees, st \in StoresUpTo(MaxInit) : Start(t, <<"r">>, st)

NextMix == Next \/ PathExists \/ Return

SpecMix == InitMix /\ [][NextMix]_vars

\* path_exists alone, probed against every small remote store
InitProbe == \E d \in RootStrings, st \in ProbeStores : Start({}, d, st)

NextProbe == PathExistsAny \/ Return

SpecProbe == InitProbe /\ [][NextProbe]_vars

----------------------------------------------------------------------------
(* Properties of upload_folder *)

Returned == pc = "idle" /\ status = "done"

IsCreate(c) == c.op \in {"create_folder", "upload_file"}

Creates(log) == { i \in 1..Len(log) : IsCreate(log[i]) }

Parent(r) == SubSeq(r, 1, Len(r) - 1)

\* the remote lookup and creation upload_folder uses for a local entry
SearchOp(kind) == IF kind = "dir" THEN "search_folder" ELSE "search_file"
CreateOp(kind) == IF kind = "dir" THEN "create_folder" ELSE "upload_file"

\* some chain of remote entities leads from p along r[i..]: folders for the
\* directories on the way, and for the last name a folder when the local
\* entry is a directory, an entity of any type when it is a file
RECURSIVE Mirrored(_, _, _, _, _)
Mirrored(st, r, i, p, kind) ==
    \E k \in 1..Len(st) :
        /\ st[k].parent = p
        /\ st[k].name = <<r[i]>>
        /\ IF i = Len(r)
           THEN kind = "dir" => st[k].kind = "folder"
           ELSE st[k].kind = "folder" /\ Mirrored(st, r, i + 1, st[k].id, kind)

\* C1: after an upload_folder that returned, a second upload_folder over the
\* same tree and parent that returns issues no create_folder and no
\* upload_file call and leaves the remote store as the first one left it.
C1_Idempotence ==
    \A i \in 1..Len(hist) :
        (i > 1 /\ hist[i - 1].status = "done" /\ hist[i].status = "done")
            => /\ Creates(hist[i].calls) = {}
               /\ hist[i].after = hist[i - 1].after

C1_Witness ==
    /\ Len(hist) = 2
    /\ hist[1].status = "done" /\ hist[2].status = "done"
    /\ \E i, j \in Creates(hist[1].calls) :
          hist[1].calls[i].op = "create_folder" /\ hist[1].calls[j].op = "upload_file"
    /\ Len(hist[2].calls) = 2

\* C2: once upload_folder has returned, every directory of the local tree has
\* a remote folder, and every file a remote entity, reachable from id_parent
\* through the same names and nesting.
C2_StructuralFidelity ==
    Returned => \A n \in tree : Mirrored(store, n.rel, 1, PId, n.kind)

\* C3 as stated: no entity is created under a parent that already holds an
\* entity, folder or file, of that name, and existing entities stay as they are.
C3_NoSecondEntity ==
    [][store' # store =>
        /\ Len(store') = Len(store) + 1
        /\ SubSeq(store', 1, Len(store)) = store
        /\ LET e == store'[Len(store')]
           IN  \A k \in 1..Len(store) :
                 ~(store[k].parent = e.parent /\ store[k].name = e.name)]_vars

\* C3 amended: a folder is created only under a parent that holds no folder of
\* that name, a file is uploaded only under a parent that holds no entity of
\* that name, and existing entities stay as they are.
C3_NoClobber ==
    [][store' # store =>
        /\ Len(store') = Len(store) + 1
        /\ SubSeq(store', 1, Len(store)) = store
        /\ LET e == store'[Len(store')]
           IN  \A k \in 1..Len(store) :
                 (store[k].parent = e.parent /\ store[k].name = e.name)
                    => (e.kind = "folder" /\ store[k].kind # "folder")]_vars

\* a run that returned after finding a folder and a file that existed before
\* it began, and that created nothing
C3_Witness ==
    /\ Returned
    /\ store = store0
    /\ \E i \in 1..Len(calls) :
          /\ calls[i].op = "search_folder"
          /\ calls[i].res # NoneId
    /\ \E i \in 1..Len(calls) :
          /\ calls[i].op = "search_file"
          /\ calls[i].res # NoneId

\* C6: in a run that returned, every entry of the tree got exactly one lookup,
\* at its directory and under that directory's id in the map, and a create
\* call follows the lookup exactly when the lookup returned absent.
C6_LookupBeforeCreate ==
    Returned =>
      \A n \in tree :
        LET at == LocalPath(dir, Parent(n.rel))
            nm == <<Last(n.rel)>>
            hits == { i \in 1..Len(calls) :
                        /\ calls[i].op = SearchOp(n.kind)
                        /\ calls[i].at = at
                        /\ calls[i].name = nm }
        IN  /\ Cardinality(hits) = 1
            /\ \A i \in hits :
                 /\ calls[i].parent = Get(dirs_dict, at)
                 /\ (calls[i].res = NoneId) <=>
                      /\ i < Len(calls)
                      /\ calls[i + 1].op = CreateOp(n.kind)
                      /\ calls[i + 1].at = at
                      /\ calls[i + 1].name = nm
                      /\ calls[i + 1].parent = calls[i].parent

\* C7: upload_folder on an empty local tree issues no remote call and leaves
\* the remote store unchanged.
C7_EmptyTree ==
    (tree = {} /\ status # "none") => (calls = <<>> /\ store = store0)

C7_Witness == tree = {} /\ Returned /\ store # <<>>

\* C8: in a run that returned, every call belongs to an entry below the root,
\* every call made at the root has id_parent as its parent, and every
\* immediate subdirectory and file of the root was looked up under id_parent.
C8_RootNotMirrored ==
    Returned =>
      /\ \A i \in 1..Len(calls) :
           /\ \E n \in tree :
                calls[i].at = LocalPath(dir, Parent(n.rel)) /\ calls[i].name = <<Last(n.rel)>>
           /\ calls[i].at = dir => calls[i].parent = PId
      /\ \A n \in tree :
           Len(n.rel) = 1 =>
             \E i \in 1..Len(calls) :
               /\ calls[i].op = SearchOp(n.kind)
               /\ calls[i].at = dir
               /\ calls[i].name = <<n.rel[1]>>
               /\ calls[i].parent = PId

\* C9: every step leaves the entities of the remote store as they are; a step
\* that changes the store appends one entity, and it is the entity of a
\* create_folder or upload_file call of a running upload_folder.
C9_StoreOnlyGrows ==
    [][/\ Len(store') >= Len(store)
       /\ SubSeq(store', 1, Len(store)) = store
       /\ store' # store =>
            /\ Len(store') = Len(store) + 1
            /\ pc = "run"
            /\ calls' # <<>>
            /\ LET e == store'[Len(store')]
                   c == calls'[Len(calls')]
               IN  /\ IsCreate(c) /\ ~c.err
                   /\ c.name = e.name /\ c.parent = e.parent /\ c.res = e.id
                   /\ (c.op = "create_folder") <=> (e.kind = "folder")]_vars

\* an upload_folder that raised after creating something, a second one that
\* returned, and a path_exists that returned true
C9_Witness ==
    /\ Len(hist) = 2
    /\ hist[1].status = "failed" /\ hist[1].after # hist[1].before
    /\ hist[2].status = "done" /\ hist[2].after # hist[2].before
    /\ pe.result = "true" /\ pe.calls # <<>>

\* C10: while upload_folder visits a directory the map holds an id for it,
\* and no remote call gets None as its parent id.
C10_ParentBound ==
    /\ (pc = "run" /\ path # <<>>) => path \in DOMAIN dirs_dict
    /\ \A i \in 1..Len(calls) : calls[i].parent # NoneId

\* C11: a remote call that raises is the last call of its invocation, which
\* ends raising; the store is then as the failed call found it, and holds
\* every entity the invocation created before.
C11_AbortOnFailure ==
    /\ \A i \in 1..Len(calls) :
         calls[i].err => (i = Len(calls) /\ pc = "idle" /\ status = "failed")
    /\ status = "failed" =>
         /\ calls # <<>> /\ calls[Len(calls)].err
         /\ hist[Len(hist)].after = store
         /\ Len(store) = Len(store0) + Cardinality({ i \in Creates(calls) : ~calls[i].err })
         /\ SubSeq(store, 1, Len(store0)) = store0
         /\ \A i \in Creates(calls) :
              ~calls[i].err =>
                /\ calls[i].res \in (Len(store0) + 1)..Len(store)
                /\ store[calls[i].res].name = calls[i].name
                /\ store[calls[i].res].parent = calls[i].parent

\* an invocation that raised after it had created a folder
C11_Witness ==
    /\ status = "failed"
    /\ \E i \in Creates(calls) : ~calls[i].err /\ calls[i].op = "create_folder"
    /\ Len(calls) >= 3

\* invocation i raised, every one after it up to j raised, and j returned
Recovers(i, j) ==
    /\ i < j
    /\ hist[j].status = "done"
    /\ \A k \in i..(j - 1) : hist[k].status = "failed"

\* the part of C12 that compares stores: the recovering invocation leaves the
\* store one error-free invocation leaves from the store the aborted one
\* started on, and creates nothing the aborted one had created
RerunSameAsOneRun ==
    \A i \in 1..Len(hist) : \A j \in 1..Len(hist) :
        Recovers(i, j)
        => /\ hist[j].after = upload_folder(tree, dir, PId, hist[i].before)
           /\ hist[j].before = hist[i].after
           /\ \A a \in Creates(hist[i].calls) : \A b \in Creates(hist[j].calls) :
                ~hist[i].calls[a].err =>
                    ~(/\ hist[j].calls[b].name = hist[i].calls[a].name
                      /\ hist[j].calls[b].parent = hist[i].calls[a].parent)

\* an invocation that raised after creating a folder, then one that returned
\* after creating what was still missing
RerunHappened ==
    /\ Len(hist) >= 2
    /\ hist[1].status = "failed"
    /\ hist[2].status = "done"
    /\ \E a \in Creates(hist[1].calls) : ~hist[1].calls[a].err
    /\ Creates(hist[2].calls) # {}

\* C12: when an invocation that raised is followed, over the same tree, by one
\* that returns, the second completes the mirror (every local entry has its
\* remote entity at the same relative path under id_parent), creates nothing
\* the aborted one had created, and leaves the store one error-free invocation
\* leaves from the store the aborted one started on.
C12_RecoveryByRerun ==
    /\ RerunSameAsOneRun
    /\ \A i \in 1..Len(hist) : \A j \in 1..Len(hist) :
         Recovers(i, j) =>
           \A n \in tree : Mirrored(hist[j].after, n.rel, 1, PId, n.kind)

\* C13: an invocation starts with dirs_dict holding dir -> id_parent alone
\* and no remote call made; while it runs every entry stays as it was bound,
\* and a step that binds a subdirectory inserts one key the dict did not hold,
\* the path of that subdirectory.
C13_MapDiscipline ==
    [][/\ (pc = "idle" /\ pc' = "run") =>
            /\ dirs_dict' = [k \in {dir} |-> PId]
            /\ calls' = <<>>
       /\ (pc = "run" /\ pc' = "run") =>
            /\ \A k \in DOMAIN dirs_dict :
                 k \in DOMAIN dirs_dict' /\ dirs_dict'[k] = dirs_dict[k]
            /\ \A k \in (DOMAIN dirs_dict') \ (DOMAIN dirs_dict) :
                 subdirs # <<>> /\ k = SlashCat(path, <<Head(subdirs)>>)
            /\ (calls' # calls /\ calls'[Len(calls) + 1].op = "search_folder") =>
                 Cardinality(DOMAIN dirs_dict') = Cardinality(DOMAIN dirs_dict) + 1
      ]_vars

\* an invocation that has bound two subdirectories
C13_Witness ==
    /\ pc = "run"
    /\ Cardinality(DOMAIN dirs_dict) >= 3
    /\ dirs_dict[dir] = PId

\* the store the i-th remote call of the running invocation was served from
StoreAt(i) ==
    SubSeq(store, 1,
           Len(store0) + Cardinality({ k \in Creates(calls) : k < i /\ ~calls[k].err }))

\* the listing a lookup gets: the positions of the entities named name under
\* parent, the folders among them for search_folder
Matches(st, op, name, parent) ==
    { k \in 1..Len(st) :
        /\ st[k].name = name
        /\ st[k].parent = parent
        /\ (op = "search_folder" => st[k].kind = "folder") }

IsSearch(c) == c.op \in {"search_folder", "search_file"}

\* the part of C14 about the lookups: a lookup that does not raise returns
\* None exactly when its listing is empty, and else the id of the entity
\* listed last; the id search_folder returns is what dirs_dict binds
LookupsReturnLastMatch ==
    \A i \in 1..Len(calls) :
        (IsSearch(calls[i]) /\ ~calls[i].err) =>
            LET m == Matches(StoreAt(i), calls[i].op, calls[i].name, calls[i].parent)
            IN  /\ (calls[i].res = NoneId) <=> (m = {})
                /\ m # {} => \A k \in m : k <= calls[i].res
                /\ m # {} => calls[i].res \in m
                /\ (pc = "run" /\ calls[i].op = "search_folder" /\ m # {}) =>
                     Get(dirs_dict, SlashCat(calls[i].at, calls[i].name)) = calls[i].res

\* a listing of two folders, the second of which became the parent of the
\* calls for the subdirectory's children
LastOfSeveralBound ==
    \E i \in 1..Len(calls) : \E j \in 1..Len(calls) :
        /\ calls[i].op = "search_folder"
        /\ Cardinality(Matches(StoreAt(i), calls[i].op, calls[i].name, calls[i].parent)) >= 2
        /\ calls[j].at = Join(calls[i].at, calls[i].name[1])
        /\ calls[j].parent = calls[i].res

\* C14: a lookup returns None exactly when its listing is empty and else the
\* id of the entity listed last, and the id search_folder returned for a
\* subdirectory is the parent of every call upload_folder makes for the
\* entries of that subdirectory.
C14_LastMatchWins ==
    /\ LookupsReturnLastMatch
    /\ \A i \in 1..Len(calls) : \A j \in 1..Len(calls) :
         (/\ calls[i].op = "search_folder"
          /\ ~calls[i].err
          /\ calls[i].res # NoneId
          /\ calls[j].at = Join(calls[i].at, calls[i].name[1]))
         => calls[j].parent = calls[i].res

\* the store holds an entity called name under parent: of any type, or a folder
HoldsEntity(st, name, parent) ==
    \E k \in 1..Len(st) : st[k].name = name /\ st[k].parent = parent

HoldsFolder(st, name, parent) ==
    \E k \in 1..Len(st) :
        st[k].name = name /\ st[k].parent = parent /\ st[k].kind = "folder"

\* the call after the i-th is the creation op of the entry the i-th looked up
CreationFollows(i, op) ==
    /\ i < Len(calls)
    /\ calls[i + 1].op = op
    /\ calls[i + 1].at = calls[i].at
    /\ calls[i + 1].name = calls[i].name
    /\ calls[i + 1].parent = calls[i].parent

\* C15: search_file returns an id exactly when the parent holds an entity of
\* that name, a folder included, and upload_file follows exactly when it holds
\* none; search_folder returns an id exactly when the parent holds a folder of
\* that name, and create_folder follows exactly when it holds none, whatever
\* files of that name it holds.
C15_TypeFilters ==
    \A i \in 1..Len(calls) :
        /\ (calls[i].op = "search_file" /\ ~calls[i].err) =>
              LET any == HoldsEntity(StoreAt(i), calls[i].name, calls[i].parent)
              IN  /\ (calls[i].res # NoneId) <=> any
                  /\ CreationFollows(i, "upload_file") <=> ~any
                  /\ any => \A j \in 1..Len(calls) :
                              ~(/\ calls[j].op = "upload_file"
                                /\ calls[j].at = calls[i].at
                                /\ calls[j].name = calls[i].name)
        /\ (calls[i].op = "search_folder" /\ ~calls[i].err) =>
              LET folder == HoldsFolder(StoreAt(i), calls[i].name, calls[i].parent)
              IN  /\ (calls[i].res # NoneId) <=> folder
                  /\ CreationFollows(i, "create_folder") <=> ~folder

\* an invocation that created the folder s beside a remote file s, and took
\* the remote folder f for the local file f
C15_Witness ==
    /\ Returned
    /\ \E i \in 1..Len(calls) :
         /\ calls[i].op = "search_folder"
         /\ \E k \in 1..Len(store0) :
              /\ store0[k].name = calls[i].name
              /\ store0[k].parent = calls[i].parent
              /\ store0[k].kind = "file"
         /\ CreationFollows(i, "create_folder")
         /\ ~calls[i + 1].err
    /\ \E i \in 1..Len(calls) :
         /\ calls[i].op = "search_file"
         /\ calls[i].res # NoneId
         /\ store[calls[i].res].kind = "folder"
         /\ ~CreationFollows(i, "upload_file")

----------------------------------------------------------------------------
(* Properties of path_exists *)

PeReturned == pe.result \in {"true", "false"}

\* some chain of remote entities, folders or files, leads from p along segs[i..]
RECURSIVE Resolves(_, _, _, _)
Resolves(st, segs, i, p) ==
    \/ i > Len(segs)
    \/ \E k \in 1..Len(st) :
          /\ st[k].parent = p
          /\ st[k].name = segs[i]
          /\ Resolves(st, segs, i + 1, st[k].id)

\* the entity a segment resolves to under p: a folder first, else any entity
Lookup(st, name, p) ==
    IF search_folder(st, name, p) # NoneId THEN search_folder(st, name, p)
    ELSE search_file(st, name, p)

\* the id segs[1..n] resolve to, read left to right from p, or None
RECURSIVE ResolveId(_, _, _, _)
ResolveId(st, segs, n, p) ==
    IF n = 0 THEN p
    ELSE LET q == ResolveId(st, segs, n - 1, p)
         IN  IF q = NoneId THEN NoneId ELSE Lookup(st, segs[n], q)

\* C4: when path_exists returns true, every segment of the search path
\* resolves to a remote entity under the entity of the segment before it, the
\* first one under id_parent.
C4_Sound ==
    pe.result = "true" => Resolves(store, Split(pe.search), 1, PId)

\* C5: when the components before the last resolve, left to right from
\* id_parent, path_exists returns true if the last component exists under the
\* entity they resolve to, and false if it does not.
C5_Complete ==
    PeReturned =>
      LET segs == Split(pe.search)
          q == ResolveId(store, segs, Len(segs) - 1, PId)
      IN  q # NoneId =>
            ((pe.result = "true") <=> (Lookup(store, segs[Len(segs)], q) # NoneId))

\* two calls of path_exists probe the same segment under the same parent
SameProbe(a, b) == a.at = b.at /\ a.name = b.name /\ a.parent = b.parent

\* C16: every call of path_exists is a lookup; a search_file comes right after
\* the search_folder for the same segment under the same parent returned None,
\* and such a search_folder is always followed by it; when search_file returns
\* None too the invocation returns false with no call after it; after a
\* search_folder that found the folder the next call, if any, is a
\* search_folder for a later segment.
C16_ProbeOrder ==
    LET c == pe.calls
    IN  /\ \A i \in 1..Len(c) :
             /\ IsSearch(c[i])
             /\ c[i].err => (i = Len(c) /\ pe.result = "error")
             /\ c[i].op = "search_file" =>
                  /\ i > 1
                  /\ c[i - 1].op = "search_folder"
                  /\ SameProbe(c[i - 1], c[i])
                  /\ ~c[i - 1].err
                  /\ c[i - 1].res = NoneId
             /\ (c[i].op = "search_folder" /\ ~c[i].err /\ c[i].res = NoneId) =>
                  /\ i < Len(c)
                  /\ c[i + 1].op = "search_file"
             /\ (c[i].op = "search_folder" /\ c[i].res # NoneId /\ i < Len(c)) =>
                  /\ c[i + 1].op = "search_folder"
                  /\ Len(c[i + 1].at) > Len(c[i].at)
             /\ (c[i].op = "search_file" /\ ~c[i].err /\ c[i].res = NoneId) =>
                  /\ i = Len(c)
                  /\ pe.result = "false"
             /\ (c[i].op = "search_file" /\ c[i].res # NoneId /\ i < Len(c)) =>
                  /\ c[i + 1].op = "search_folder"
                  /\ Len(c[i + 1].at) > Len(c[i].at)
        /\ pe.result = "false" =>
             /\ c # <<>>
             /\ c[Len(c)].op = "search_file"
             /\ c[Len(c)].res = NoneId
             /\ ~c[Len(c)].err

\* path_exists found one segment as a folder with one lookup, then returned
\* false on the next after probing it as a folder and as a file
C16_Witness ==
    /\ pe.result = "false"
    /\ Len(pe.calls) = 3
    /\ pe.calls[1].op = "search_folder"
    /\ pe.calls[1].res # NoneId
    /\ pe.calls[2].op = "search_folder"
    /\ pe.calls[3].op = "search_file"

\* the accumulated path of the first n segments
RECURSIVE Prefix(_, _)
Prefix(segs, n) ==
    IF n = 1 THEN segs[1] ELSE SlashCat(Prefix(segs, n - 1), segs[n])

\* C17: when path_exists returns true, every segment after the first, a
\* segment equal to the dir string included, was looked up at its own
\* accumulated prefix, under the id bound for that prefix; and every lookup
\* made takes the id bound for the prefix it is made at.
C17_SegmentsApart ==
    LET segs == Split(pe.search)
        c == pe.calls
    IN  /\ \A k \in 1..Len(c) : c[k].parent = Get(pe.dict, c[k].at)
        /\ pe.result = "true" =>
             \A i \in 2..Len(segs) :
                \E k \in 1..Len(c) :
                    /\ c[k].op = "search_folder"
                    /\ c[k].at = Prefix(segs, i - 1)
                    /\ c[k].name = segs[i]
                    /\ c[k].parent = Get(pe.dict, Prefix(segs, i - 1))

\* C18: an invocation of path_exists, returning or raising, leaves the remote
\* store as it was and makes no call but search_folder and search_file.
C18_ReadOnly ==
    [][pe' # pe =>
         /\ store' = store
         /\ \A k \in 1..Len(pe'.calls) : IsSearch(pe'.calls[k])
      ]_vars

\* path_exists returned false on a store that holds entities, after two
\* segments were probed
C18_Witness ==
    /\ pe.result = "false"
    /\ Len(pe.calls) >= 3
    /\ store # <<>>

====
